---- MODULE Spec2Model ----
(***************************************************************************)
(* Model of the notification worker (package notification): Worker.Run,    *)
(* Worker.processNotification and the delivery functions it calls, run by  *)
(* one or more worker instances against one notifications table and one    *)
(* payload cache.                                                          *)
(***************************************************************************)
EXTENDS Integers, FiniteSets, Sequences, TLC

\* ------------------------------------------------------------------ bounds
NumWorkers == 2
NumNotifs == 2
NumEvents == 1

Workers == 1..NumWorkers
NotifIDs == 1..NumNotifs
EventIDs == 1..NumEvents
NoNotif == 0
NoWorker == 0

\* ------------------------------------------------------------------ errors
\* A Go error value: nil, or a message with the sentinels it wraps (errors.Is).
NilErr == [nil |-> TRUE, chain |-> {}, msg |-> ""]
NewErr(m) == [nil |-> FALSE, chain |-> {}, msg |-> m]
ErrorsIs(e, sentinel) == sentinel \in e.chain

ErrRetryable == [nil |-> FALSE, chain |-> {"ErrRetryable"}, msg |-> "retryable error"]
ErrNoRows == [nil |-> FALSE, chain |-> {"ErrNoRows"}, msg |-> "no rows in result set"]
ErrSenderNotAvailable == NewErr("email sender not available")
ErrDB == NewErr("db error")

\* fmt.Errorf("%w: error preparing email data: %v", ErrRetryable, err)
WrapEmailDataErr(e) ==
    [nil |-> FALSE, chain |-> {"ErrRetryable"},
     msg |-> ErrRetryable.msg \o ": error preparing email data: " \o e.msg]

\* fmt.Errorf("%w: %v", ErrRetryable, err)
WrapTmplDataErr(e) ==
    [nil |-> FALSE, chain |-> {"ErrRetryable"},
     msg |-> ErrRetryable.msg \o ": " \o e.msg]

\* fmt.Errorf("unexpected status code: %d", resp.StatusCode)
StatusText(code) ==
    CASE code = 200 -> "200"
      [] code = 500 -> "500"
StatusErr(code) == NewErr("unexpected status code: " \o StatusText(code))

\* What the collaborators can answer.
FetchErr == NewErr("error getting data")
ExecErr == NewErr("template: error executing template")
ParseErr == NewErr("template: error parsing template")
ConnRefused == NewErr("dial tcp: connection refused")
SendErr == NewErr("error sending email")
StatusCodes == {200, 500}

\* ------------------------------------------------------------------ data
\* hub.Event kinds, and the notifications an upstream producer can enqueue.
NewRelease == "NewRelease"
RepositoryScanningErrors == "RepositoryScanningErrors"
RepositoryTrackingErrors == "RepositoryTrackingErrors"
RepositoryOwnershipClaim == "RepositoryOwnershipClaim"
EventKinds == {NewRelease, RepositoryTrackingErrors}

\* A notification row: which targets are set, and the event it wraps.
UserTarget(e) == [user |-> TRUE, webhook |-> FALSE, event |-> e]
WebhookTarget(e) == [user |-> FALSE, webhook |-> TRUE, event |-> e]
Notifications == {UserTarget(e) : e \in EventIDs} \cup {WebhookTarget(e) : e \in EventIDs}

\* Rows the data model rules out but hub.Notification can hold: both pointers
\* nil, both set.
NoTarget(e) == [user |-> FALSE, webhook |-> FALSE, event |-> e]
BothTargets(e) == [user |-> TRUE, webhook |-> TRUE, event |-> e]
AnyNotifications ==
    Notifications \cup {NoTarget(e) : e \in EventIDs} \cup {BothTargets(e) : e \in EventIDs}

\* What PackageManager.Get / RepositoryManager.GetByID can answer for an event:
\* the record as it was first, and as it is after an update.
DataVersions == {"v1", "v2"}
NoData == "none"

\* hub.Webhook as GetPending reads it with the notification.  Template: ""
\* (the default template), a custom template, a custom template that does not
\* parse.  urlOK: whether http.NewRequest accepts Webhook.URL.
Templates == {"", "custom", "unparsable"}
NoWebhook == [template |-> "", urlOK |-> TRUE]
\* n.User.Email: every user has an email address of their own.  The To field of
\* an email.Data nobody has set is empty.
Email(i) == i
NoRecipient == 0

Webhooks == {[template |-> t, urlOK |-> TRUE] : t \in Templates} \cup {[template |-> "", urlOK |-> FALSE]}

VARIABLES
    notifs,      \* the notifications table's immutable columns, by notification id
    eventKind,   \* hub.Event.EventKind of each event
    esSet,       \* w.svc.ES != nil
    store,       \* committed processed flag and error text of each notification
    lockedBy,    \* the transaction (worker) holding the row lock of each notification
    cache,       \* go-cache: key -> the cached answer, or NoEntry
    cancelled,   \* ctx.Done() is closed
    pc,          \* where each worker's Run is
    n,           \* processNotification's n: the id of the claimed notification
    wh,          \* n.Webhook of the claimed notification
    err,         \* processNotification's err after delivery (nil outside the call)
    ret,         \* Run's err: what processNotification returned in this iteration
    updateOK,    \* whether the UpdateStatus call of this iteration succeeded
    timer,       \* whether the time.After channel woke the select of the current pause
    delivered,   \* history: the notification reached its recipient and is not marked processed yet
    data,        \* the collaborator's answer (p, r) or the email data this delivery builds on
    retried,     \* history: the last delivery attempt of the notification failed retryably
    wgDone,      \* how many times each Run called wg.Done()
    backend,     \* the package/repository collaborator's current answer
    to,          \* emailData.To of the email data each delivery hands to the sender
    cachedTo     \* the To field of the email.Data cached for each event

vars == <<notifs, eventKind, esSet, store, lockedBy, cache, cancelled, pc, n, wh, err,
          ret, updateOK, timer, delivered, data, retried, wgDone, backend, to, cachedTo>>

config == <<notifs, eventKind, esSet>>

\* ------------------------------------------------------------------ cache
NoEntry == "none"
CacheKinds == {"emailData", "package", "repository"}
CacheKeys == CacheKinds \X EventIDs
\* cKey := "<kind>.%" + e.EventID
CKey(kind, e) == <<kind, e>>
CacheGet(k) == [value |-> cache[k], ok |-> cache[k] # NoEntry]
CacheSetDefault(c, k, v) == [c EXCEPT ![k] = v]

\* The state after NewWorker, with pending notifications drawn from rows.
InitWith(rows) ==
    /\ notifs \in [NotifIDs -> rows]
    /\ \A i \in NotifIDs : \A e \in 1..(notifs[i].event - 1) : \E j \in 1..(i - 1) : notifs[j].event = e
    /\ eventKind \in [EventIDs -> EventKinds]
    /\ \A e \in EventIDs : (\A i \in NotifIDs : notifs[i].event # e) => eventKind[e] = NewRelease
    /\ esSet \in BOOLEAN
    /\ store = [i \in NotifIDs |-> [processed |-> FALSE, error |-> ""]]
    /\ lockedBy = [i \in NotifIDs |-> NoWorker]
    /\ cache = [k \in CacheKeys |-> NoEntry]
    /\ cancelled = FALSE
    /\ pc = [w \in Workers |-> "call"]
    /\ n = [w \in Workers |-> NoNotif]
    /\ wh = [w \in Workers |-> NoWebhook]
    /\ err = [w \in Workers |-> NilErr]
    /\ ret = [w \in Workers |-> NilErr]
    /\ updateOK = [w \in Workers |-> TRUE]
    /\ timer = [w \in Workers |-> FALSE]
    /\ delivered = [i \in NotifIDs |-> FALSE]
    /\ data = [w \in Workers |-> NoData]
    /\ retried = [i \in NotifIDs |-> FALSE]
    /\ wgDone = [w \in Workers |-> 0]
    /\ backend = "v1"
    /\ to = [w \in Workers |-> NoRecipient]
    /\ cachedTo = [e \in EventIDs |-> NoRecipient]

Init == InitWith(Notifications)

\* ------------------------------------------------------------------ store
\* NotificationManager.GetPending: the oldest unprocessed notification whose row
\* no other transaction holds (FOR UPDATE SKIP LOCKED).
Claimable == {i \in NotifIDs : ~store[i].processed /\ lockedBy[i] = NoWorker}
Oldest == CHOOSE i \in Claimable : \A j \in Claimable : i <= j

\* NotificationManager.UpdateStatus(ctx, tx, id, processed, err): the error's
\* text is stored, the empty string for nil.
UpdateStatus(i, processed, e) ==
    [store EXCEPT ![i] = [processed |-> processed, error |-> IF e.nil THEN "" ELSE e.msg]]

\* util.DBTransact: the transaction commits when the callback returned nil and
\* no statement of it failed, and is rolled back otherwise; either way the row
\* lock is released.
TxCommits(cbErr, stmtOK) == cbErr.nil /\ stmtOK
ReleaseLock(w) == [i \in NotifIDs |-> IF lockedBy[i] = w THEN NoWorker ELSE lockedBy[i]]

\* Mutant of AfterReturn: Run gives up on an error that is not pgx.ErrNoRows.
AfterReturnGivesUp(r) ==
    IF r.nil THEN "checkDone"
    ELSE IF ErrorsIs(r, "ErrNoRows") THEN "pauseEmpty"
    ELSE "returned"

\* Mutant of AfterReturn: a retryable error is retried at once, without a pause.
AfterReturnRetriesAtOnce(r) ==
    IF r.nil \/ ErrorsIs(r, "ErrRetryable") THEN "checkDone"
    ELSE IF ErrorsIs(r, "ErrNoRows") THEN "pauseEmpty"
    ELSE "pauseError"

\* ------------------------------------------------------------------ Run
\* The switch of Run on the error processNotification returned.
AfterReturn(r) ==
    IF r.nil THEN "checkDone"
    ELSE IF ErrorsIs(r, "ErrNoRows") THEN "pauseEmpty"
    ELSE "pauseError"

InPause(w) == pc[w] \in {"pauseEmpty", "pauseError"}

\* defer wg.Done(): runs when Run returns or is unwound by a panic.
WgDone(w) == wgDone' = [wgDone EXCEPT ![w] = @ + 1]

\* for { err := w.processNotification(ctx) ... }: the loop goes on, with a new
\* err for the next iteration.
NextIteration(w) ==
    /\ pc' = [pc EXCEPT ![w] = "call"]
    /\ ret' = [ret EXCEPT ![w] = NilErr]
    /\ updateOK' = [updateOK EXCEPT ![w] = TRUE]

\* ctx is cancelled.
Cancel ==
    /\ ~cancelled
    /\ cancelled' = TRUE
    /\ UNCHANGED <<config, store, lockedBy, cache, pc, n, wh, err, ret, updateOK, timer,
                   delivered, data, retried, wgDone, backend, to, cachedTo>>

\* Mutant of CheckDone: the loop goes on without looking at ctx.Done().
CheckDoneIgnoresCtx(w) ==
    /\ pc[w] = "checkDone"
    /\ NextIteration(w)
    /\ UNCHANGED <<config, store, lockedBy, cache, cancelled, n, wh, err, timer, delivered,
                   data, retried, wgDone, backend, to, cachedTo>>

\* case err == nil: select { case <-ctx.Done(): return; default: }
CheckDone(w) ==
    /\ pc[w] = "checkDone"
    /\ IF cancelled
       THEN /\ pc' = [pc EXCEPT ![w] = "returned"]
            /\ WgDone(w)
            /\ UNCHANGED <<ret, updateOK>>
       ELSE NextIteration(w) /\ UNCHANGED wgDone
    /\ UNCHANGED <<config, store, lockedBy, cache, cancelled, n, wh, err, timer, delivered,
                   data, retried, backend, to, cachedTo>>

\* Run waits in select { case <-time.After(pause): case <-ctx.Done(): return }.
\* The timer is created on entry, so only ctx.Done() can be ready then; a
\* waiting select is woken by whichever channel becomes ready first, and that
\* channel's case runs.

\* The time.After channel fires first: the select is woken with the timer case.
TimerFires(w) ==
    /\ InPause(w)
    /\ ~timer[w]
    /\ ~cancelled
    /\ timer' = [timer EXCEPT ![w] = TRUE]
    /\ UNCHANGED <<config, store, lockedBy, cache, cancelled, pc, n, wh, err, ret, updateOK,
                   delivered, data, retried, wgDone, backend, to, cachedTo>>

\* case <-time.After(...): the loop goes on with the next iteration.
PauseTimeout(w) ==
    /\ InPause(w)
    /\ timer[w]
    /\ NextIteration(w)
    /\ timer' = [timer EXCEPT ![w] = FALSE]
    /\ UNCHANGED <<config, store, lockedBy, cache, cancelled, n, wh, err, delivered, data,
                   retried, wgDone, backend, to, cachedTo>>

\* Mutant of PauseCancelled: ctx.Done() is looked at only once the timer fired.
PauseCancelledAfterTimer(w) ==
    /\ InPause(w)
    /\ timer[w]
    /\ cancelled
    /\ pc' = [pc EXCEPT ![w] = "returned"]
    /\ WgDone(w)
    /\ UNCHANGED <<config, store, lockedBy, cache, cancelled, n, wh, err, ret, updateOK, timer,
                   delivered, data, retried, backend, to, cachedTo>>

\* Mutant of PauseCancelled: wg.Done() is not deferred, so the return out of a
\* pause skips it.
PauseCancelledNoDone(w) ==
    /\ InPause(w)
    /\ ~timer[w]
    /\ cancelled
    /\ pc' = [pc EXCEPT ![w] = "returned"]
    /\ UNCHANGED <<config, store, lockedBy, cache, cancelled, n, wh, err, ret, updateOK, timer,
                   delivered, data, retried, wgDone, backend, to, cachedTo>>

\* case <-ctx.Done(): return
PauseCancelled(w) ==
    /\ InPause(w)
    /\ ~timer[w]
    /\ cancelled
    /\ pc' = [pc EXCEPT ![w] = "returned"]
    /\ WgDone(w)
    /\ UNCHANGED <<config, store, lockedBy, cache, cancelled, n, wh, err, ret, updateOK, timer,
                   delivered, data, retried, backend, to, cachedTo>>

\* ------------------------------------------------------------------ processNotification
\* processNotification returned e to Run: the transaction is over, its row lock
\* released, and Run's switch picks the next wait.
Return(w, e) ==
    /\ ret' = [ret EXCEPT ![w] = e]
    /\ pc' = [pc EXCEPT ![w] = AfterReturn(e)]
    /\ lockedBy' = ReleaseLock(w)
    /\ n' = [n EXCEPT ![w] = NoNotif]
    /\ wh' = [wh EXCEPT ![w] = NoWebhook]
    /\ err' = [err EXCEPT ![w] = NilErr]

\* Mutant of GetPendingRow: GetPending run outside the transaction, so the row
\* lock is not held while the notification is delivered.
GetPendingRowNoLock(w) ==
    /\ pc[w] = "call"
    /\ Claimable # {}
    /\ n' = [n EXCEPT ![w] = Oldest]
    /\ \E h \in Webhooks :
         wh' = [wh EXCEPT ![w] = IF notifs[Oldest].webhook THEN h ELSE NoWebhook]
    /\ pc' = [pc EXCEPT ![w] = "dispatch"]
    /\ UNCHANGED <<config, store, lockedBy, cache, cancelled, err, ret, updateOK, timer,
                   delivered, data, retried, wgDone, backend, to, cachedTo>>

\* Mutant of GetPendingRow: GetPending called for any unlocked notification,
\* processed or not.
GetPendingRowAnyRow(w) ==
    /\ pc[w] = "call"
    /\ \E i \in NotifIDs :
         /\ lockedBy[i] = NoWorker
         /\ n' = [n EXCEPT ![w] = i]
         /\ \E h \in Webhooks :
              wh' = [wh EXCEPT ![w] = IF notifs[i].webhook THEN h ELSE NoWebhook]
         /\ lockedBy' = [lockedBy EXCEPT ![i] = w]
    /\ pc' = [pc EXCEPT ![w] = "dispatch"]
    /\ UNCHANGED <<config, store, cache, cancelled, err, ret, updateOK, timer, delivered, data,
                   retried, wgDone, backend, to, cachedTo>>

\* GetPending returned a notification: the row is claimed.
GetPendingRow(w) ==
    /\ pc[w] = "call"
    /\ Claimable # {}
    /\ n' = [n EXCEPT ![w] = Oldest]
    /\ \E h \in Webhooks :
         wh' = [wh EXCEPT ![w] = IF notifs[Oldest].webhook THEN h ELSE NoWebhook]
    /\ lockedBy' = [lockedBy EXCEPT ![Oldest] = w]
    /\ pc' = [pc EXCEPT ![w] = "dispatch"]
    /\ UNCHANGED <<config, store, cache, cancelled, err, ret, updateOK, timer, delivered, data,
                   retried, wgDone, backend, to, cachedTo>>

\* Mutant of GetPendingNoRows: pgx.ErrNoRows is swallowed and nil returned.
GetPendingNoRowsReturnsNil(w) ==
    /\ pc[w] = "call"
    /\ Claimable = {}
    /\ Return(w, NilErr)
    /\ UNCHANGED <<config, store, cache, cancelled, updateOK, timer, delivered, data, retried,
                   wgDone, backend, to, cachedTo>>

\* GetPending returned pgx.ErrNoRows.
GetPendingNoRows(w) ==
    /\ pc[w] = "call"
    /\ Claimable = {}
    /\ Return(w, ErrNoRows)
    /\ UNCHANGED <<config, store, cache, cancelled, updateOK, timer, delivered, data, retried,
                   wgDone, backend, to, cachedTo>>

\* The transaction could not begin, or GetPending failed with another error.
GetPendingFails(w) ==
    /\ pc[w] = "call"
    /\ Return(w, ErrDB)
    /\ UNCHANGED <<config, store, cache, cancelled, updateOK, timer, delivered, data, retried,
                   wgDone, backend, to, cachedTo>>

\* The delivery ended with error e (nil for none): on to the retryable check.
Delivered(w, e) ==
    /\ err' = [err EXCEPT ![w] = e]
    /\ pc' = [pc EXCEPT ![w] = "finish"]
    /\ data' = [data EXCEPT ![w] = NoData]

\* Mutant of UsesEmail: the email channel for whatever target is set.
UsesEmailAlways(i) == notifs[i].user \/ notifs[i].webhook

\* The data kind preparePkg/prepareRepoNotificationTemplateData caches.
UsesEmail(i) == notifs[i].user
DataKind(i) ==
    IF UsesEmail(i) /\ eventKind[notifs[i].event] # NewRelease THEN "repository" ELSE "package"

\* Mutant of Dispatch: the missing sender reported as a retryable error.
DispatchNoSenderRetryable(w) ==
    /\ pc[w] = "dispatch"
    /\ LET nt == notifs[n[w]] IN
         IF nt.user THEN
            IF esSet THEN
               /\ pc' = [pc EXCEPT ![w] =
                           IF CacheGet(CKey("emailData", nt.event)).ok THEN "sendEmail" ELSE "prepData"]
               /\ data' = [data EXCEPT ![w] =
                             IF CacheGet(CKey("emailData", nt.event)).ok
                             THEN CacheGet(CKey("emailData", nt.event)).value ELSE NoData]
               /\ err' = err
            ELSE Delivered(w, WrapTmplDataErr(ErrSenderNotAvailable))
         ELSE IF nt.webhook THEN
            /\ pc' = [pc EXCEPT ![w] = "prepData"]
            /\ data' = data
            /\ err' = err
         ELSE Delivered(w, NilErr)
    /\ to' = [to EXCEPT ![w] =
                 IF notifs[n[w]].user /\ esSet /\ CacheGet(CKey("emailData", notifs[n[w]].event)).ok
                 THEN Email(n[w]) ELSE NoRecipient]
    /\ UNCHANGED <<config, store, lockedBy, cache, cancelled, n, wh, ret, updateOK, timer,
                   delivered, retried, wgDone, backend, cachedTo>>

\* Mutant of Dispatch: a notification with no target is a delivery error.
DispatchNoTargetFails(w) ==
    /\ pc[w] = "dispatch"
    /\ LET nt == notifs[n[w]] IN
         IF nt.user THEN
            IF esSet THEN
               /\ pc' = [pc EXCEPT ![w] =
                           IF CacheGet(CKey("emailData", nt.event)).ok THEN "sendEmail" ELSE "prepData"]
               /\ data' = [data EXCEPT ![w] =
                             IF CacheGet(CKey("emailData", nt.event)).ok
                             THEN CacheGet(CKey("emailData", nt.event)).value ELSE NoData]
               /\ err' = err
            ELSE Delivered(w, ErrSenderNotAvailable)
         ELSE IF nt.webhook THEN
            /\ pc' = [pc EXCEPT ![w] = "prepData"]
            /\ data' = data
            /\ err' = err
         ELSE Delivered(w, NewErr("notification has no target"))
    /\ to' = [to EXCEPT ![w] =
                 IF notifs[n[w]].user /\ esSet /\ CacheGet(CKey("emailData", notifs[n[w]].event)).ok
                 THEN Email(n[w]) ELSE NoRecipient]
    /\ UNCHANGED <<config, store, lockedBy, cache, cancelled, n, wh, ret, updateOK, timer,
                   delivered, retried, wgDone, backend, cachedTo>>

\* switch { case n.User != nil: ... case n.Webhook != nil: ... }, and for an
\* email the lookup of the cached email data: on a hit the cached value is
\* copied into emailData and emailData.To = n.User.Email sets the recipient.
Dispatch(w) ==
    /\ pc[w] = "dispatch"
    /\ LET nt == notifs[n[w]] IN
         IF nt.user THEN
            IF esSet THEN
               /\ pc' = [pc EXCEPT ![w] =
                           IF CacheGet(CKey("emailData", nt.event)).ok THEN "sendEmail" ELSE "prepData"]
               /\ data' = [data EXCEPT ![w] =
                             IF CacheGet(CKey("emailData", nt.event)).ok
                             THEN CacheGet(CKey("emailData", nt.event)).value ELSE NoData]
               /\ err' = err
            ELSE Delivered(w, ErrSenderNotAvailable)
         ELSE IF nt.webhook THEN
            /\ pc' = [pc EXCEPT ![w] = "prepData"]
            /\ data' = data
            /\ err' = err
         ELSE Delivered(w, NilErr)
    /\ to' = [to EXCEPT ![w] =
                 IF notifs[n[w]].user /\ esSet /\ CacheGet(CKey("emailData", notifs[n[w]].event)).ok
                 THEN Email(n[w]) ELSE NoRecipient]
    /\ UNCHANGED <<config, store, lockedBy, cache, cancelled, n, wh, ret, updateOK, timer,
                   delivered, retried, wgDone, backend, cachedTo>>

\* Mutant of PrepareData: the collaborator is asked without looking at the cache.
PrepareDataAlwaysFetches(w) ==
    /\ pc[w] = "prepData"
    /\ pc' = [pc EXCEPT ![w] = "fetch"]
    /\ data' = [data EXCEPT ![w] = NoData]
    /\ UNCHANGED <<config, store, lockedBy, cache, cancelled, n, wh, err, ret, updateOK, timer,
                   delivered, retried, wgDone, backend, to, cachedTo>>

\* prepare{Pkg,Repo}NotificationTemplateData: the cache lookup.
PrepareData(w) ==
    /\ pc[w] = "prepData"
    /\ LET c == CacheGet(CKey(DataKind(n[w]), notifs[n[w]].event)) IN
         /\ pc' = [pc EXCEPT ![w] = IF c.ok THEN "render" ELSE "fetch"]
         /\ data' = [data EXCEPT ![w] = IF c.ok THEN c.value ELSE NoData]
    /\ UNCHANGED <<config, store, lockedBy, cache, cancelled, n, wh, err, ret, updateOK, timer,
                   delivered, retried, wgDone, backend, to, cachedTo>>

\* The error a failed preparation is returned as by the delivery function.
PrepErr(i, e) == IF UsesEmail(i) THEN WrapEmailDataErr(e) ELSE WrapTmplDataErr(e)

\* PackageManager.Get / RepositoryManager.GetByID answered: the value is cached.
FetchOK(w) ==
    /\ pc[w] = "fetch"
    /\ data' = [data EXCEPT ![w] = backend]
    /\ cache' = CacheSetDefault(cache, CKey(DataKind(n[w]), notifs[n[w]].event), backend)
    /\ pc' = [pc EXCEPT ![w] = "render"]
    /\ UNCHANGED <<config, store, lockedBy, cancelled, n, wh, err, ret, updateOK, timer,
                   delivered, retried, wgDone, backend, to, cachedTo>>

\* Mutant of FetchFails: the failed query leaves an entry in the cache.
FetchFailsCaches(w) ==
    /\ pc[w] = "fetch"
    /\ Delivered(w, PrepErr(n[w], FetchErr))
    /\ cache' = CacheSetDefault(cache, CKey(DataKind(n[w]), notifs[n[w]].event), backend)
    /\ UNCHANGED <<config, store, lockedBy, cancelled, n, wh, ret, updateOK, timer,
                   delivered, retried, wgDone, backend, to, cachedTo>>

\* PackageManager.Get / RepositoryManager.GetByID failed.
FetchFails(w) ==
    /\ pc[w] = "fetch"
    /\ Delivered(w, PrepErr(n[w], FetchErr))
    /\ UNCHANGED <<config, store, lockedBy, cache, cancelled, n, wh, ret, updateOK, timer,
                   delivered, retried, wgDone, backend, to, cachedTo>>

\* Mutant of RenderEmailOK: the cache holds the email data the recipient is
\* then set on (a pointer), not a copy of it.
RenderEmailOKCachesRecipient(w) ==
    /\ pc[w] = "render"
    /\ UsesEmail(n[w])
    /\ cache' = CacheSetDefault(cache, CKey("emailData", notifs[n[w]].event), data[w])
    /\ cachedTo' = [cachedTo EXCEPT ![notifs[n[w]].event] = Email(n[w])]
    /\ to' = [to EXCEPT ![w] = Email(n[w])]
    /\ pc' = [pc EXCEPT ![w] = "sendEmail"]
    /\ UNCHANGED <<config, store, lockedBy, cancelled, n, wh, err, ret, updateOK, timer,
                   delivered, data, retried, wgDone, backend>>

\* prepareEmailData: the body template executed; deliverEmailNotification
\* caches the email data, whose To is still unset, and then sets the recipient
\* on its own copy: emailData.To = n.User.Email.
RenderEmailOK(w) ==
    /\ pc[w] = "render"
    /\ UsesEmail(n[w])
    /\ cache' = CacheSetDefault(cache, CKey("emailData", notifs[n[w]].event), data[w])
    /\ cachedTo' = [cachedTo EXCEPT ![notifs[n[w]].event] = to[w]]
    /\ to' = [to EXCEPT ![w] = Email(n[w])]
    /\ pc' = [pc EXCEPT ![w] = "sendEmail"]
    /\ UNCHANGED <<config, store, lockedBy, cancelled, n, wh, err, ret, updateOK, timer,
                   delivered, data, retried, wgDone, backend>>

\* prepareEmailData: the body template failed to execute.
RenderEmailFails(w) ==
    /\ pc[w] = "render"
    /\ UsesEmail(n[w])
    /\ Delivered(w, PrepErr(n[w], ExecErr))
    /\ UNCHANGED <<config, store, lockedBy, cache, cancelled, n, wh, ret, updateOK, timer,
                   delivered, retried, wgDone, backend, to, cachedTo>>

\* deliverWebhookNotification: the payload template parsed and executed.
RenderWebhookOK(w) ==
    /\ pc[w] = "render"
    /\ ~UsesEmail(n[w])
    /\ wh[w].template # "unparsable"
    /\ pc' = [pc EXCEPT ![w] = "callWebhook"]
    /\ UNCHANGED <<config, store, lockedBy, cache, cancelled, n, wh, err, ret, updateOK, timer,
                   delivered, data, retried, wgDone, backend, to, cachedTo>>

\* Mutant of RenderWebhookParseFails: the parse error is wrapped as retryable.
RenderWebhookParseFailsRetryable(w) ==
    /\ pc[w] = "render"
    /\ ~UsesEmail(n[w])
    /\ wh[w].template = "unparsable"
    /\ Delivered(w, WrapTmplDataErr(ParseErr))
    /\ UNCHANGED <<config, store, lockedBy, cache, cancelled, n, wh, ret, updateOK, timer,
                   delivered, retried, wgDone, backend, to, cachedTo>>

\* template.New("").Parse(n.Webhook.Template) failed.
RenderWebhookParseFails(w) ==
    /\ pc[w] = "render"
    /\ ~UsesEmail(n[w])
    /\ wh[w].template = "unparsable"
    /\ Delivered(w, ParseErr)
    /\ UNCHANGED <<config, store, lockedBy, cache, cancelled, n, wh, ret, updateOK, timer,
                   delivered, retried, wgDone, backend, to, cachedTo>>

\* tmpl.Execute(&payload, tmplData) failed (a custom template).
RenderWebhookExecFails(w) ==
    /\ pc[w] = "render"
    /\ ~UsesEmail(n[w])
    /\ wh[w].template = "custom"
    /\ Delivered(w, ExecErr)
    /\ UNCHANGED <<config, store, lockedBy, cache, cancelled, n, wh, ret, updateOK, timer,
                   delivered, retried, wgDone, backend, to, cachedTo>>

\* The error deliverWebhookNotification returns for the answer of httpClient.Do.
WebhookResult(doErr, code) ==
    IF ~doErr.nil THEN doErr
    ELSE IF code >= 400 THEN StatusErr(code)
    ELSE NilErr

\* http.NewRequest built the request; httpClient.Do answered with a status code.
CallWebhookResponse(w) ==
    /\ pc[w] = "callWebhook"
    /\ wh[w].urlOK
    /\ \E code \in StatusCodes :
         /\ Delivered(w, WebhookResult(NilErr, code))
         /\ delivered' = [delivered EXCEPT ![n[w]] = @ \/ code < 400]
    /\ UNCHANGED <<config, store, lockedBy, cache, cancelled, n, wh, ret, updateOK, timer,
                   retried, wgDone, backend, to, cachedTo>>

\* httpClient.Do failed (transport error).
CallWebhookFails(w) ==
    /\ pc[w] = "callWebhook"
    /\ wh[w].urlOK
    /\ Delivered(w, WebhookResult(ConnRefused, 0))
    /\ UNCHANGED <<config, store, lockedBy, cache, cancelled, n, wh, ret, updateOK, timer,
                   delivered, retried, wgDone, backend, to, cachedTo>>

\* http.NewRequest failed and its error is dropped: req is nil and
\* req.Header.Set panics.  The panic unwinds Run, running its deferred
\* wg.Done(); the transaction is not committed.
CallWebhookPanics(w) ==
    /\ pc[w] = "callWebhook"
    /\ ~wh[w].urlOK
    /\ pc' = [pc EXCEPT ![w] = "panicked"]
    /\ WgDone(w)
    /\ lockedBy' = ReleaseLock(w)
    /\ UNCHANGED <<config, store, cache, cancelled, n, wh, err, ret, updateOK, timer,
                   delivered, data, retried, backend, to, cachedTo>>

\* emailData.To = n.User.Email; w.svc.ES.SendEmail(&emailData) succeeded.
SendEmailOK(w) ==
    /\ pc[w] = "sendEmail"
    /\ Delivered(w, NilErr)
    /\ delivered' = [delivered EXCEPT ![n[w]] = TRUE]
    /\ to' = [to EXCEPT ![w] = NoRecipient]
    /\ UNCHANGED <<config, store, lockedBy, cache, cancelled, n, wh, ret, updateOK, timer,
                   retried, wgDone, backend, cachedTo>>

\* w.svc.ES.SendEmail(&emailData) failed.
SendEmailFails(w) ==
    /\ pc[w] = "sendEmail"
    /\ Delivered(w, SendErr)
    /\ to' = [to EXCEPT ![w] = NoRecipient]
    /\ UNCHANGED <<config, store, lockedBy, cache, cancelled, n, wh, ret, updateOK, timer,
                   delivered, retried, wgDone, backend, cachedTo>>

\* Mutant of FinishRetryable: the retryable error is recorded like a terminal one.
FinishRetryableMarks(w) ==
    /\ pc[w] = "finish"
    /\ ErrorsIs(err[w], "ErrRetryable")
    /\ store' = UpdateStatus(n[w], TRUE, err[w])
    /\ retried' = [retried EXCEPT ![n[w]] = TRUE]
    /\ Return(w, err[w])
    /\ UNCHANGED <<config, cache, cancelled, updateOK, timer, delivered, data, wgDone, backend,
                   to, cachedTo>>

\* Mutant of FinishRetryable: a cutoff, the second retryable failure in a row is
\* recorded like a terminal one.
FinishRetryableCutoff(w) ==
    /\ pc[w] = "finish"
    /\ ErrorsIs(err[w], "ErrRetryable")
    /\ store' = IF retried[n[w]] THEN UpdateStatus(n[w], TRUE, err[w]) ELSE store
    /\ retried' = [retried EXCEPT ![n[w]] = TRUE]
    /\ Return(w, err[w])
    /\ UNCHANGED <<config, cache, cancelled, updateOK, timer, delivered, data, wgDone, backend,
                   to, cachedTo>>

\* Mutant of FinishRetryable: the notification that failed retryably is set
\* aside (its row stays locked), so the next claim gets a younger one.
FinishRetryableSetsAside(w) ==
    /\ pc[w] = "finish"
    /\ ErrorsIs(err[w], "ErrRetryable")
    /\ retried' = [retried EXCEPT ![n[w]] = TRUE]
    /\ ret' = [ret EXCEPT ![w] = err[w]]
    /\ pc' = [pc EXCEPT ![w] = AfterReturn(err[w])]
    /\ n' = [n EXCEPT ![w] = NoNotif]
    /\ wh' = [wh EXCEPT ![w] = NoWebhook]
    /\ err' = [err EXCEPT ![w] = NilErr]
    /\ UNCHANGED <<config, store, lockedBy, cache, cancelled, updateOK, timer, delivered, data,
                   wgDone, backend, to, cachedTo>>

\* if errors.Is(err, ErrRetryable) { return err }
FinishRetryable(w) ==
    /\ pc[w] = "finish"
    /\ ErrorsIs(err[w], "ErrRetryable")
    /\ retried' = [retried EXCEPT ![n[w]] = TRUE]
    /\ Return(w, err[w])
    /\ UNCHANGED <<config, store, cache, cancelled, updateOK, timer, delivered, data, wgDone,
                   backend, to, cachedTo>>

\* Mutant of FinishUpdate: the status is written whether or not UpdateStatus failed.
FinishUpdateIgnoresFailure(w, ok) ==
    /\ pc[w] = "finish"
    /\ ~ErrorsIs(err[w], "ErrRetryable")
    /\ updateOK' = [updateOK EXCEPT ![w] = ok]
    /\ store' = UpdateStatus(n[w], TRUE, err[w])
    /\ delivered' = [delivered EXCEPT ![n[w]] = FALSE]
    /\ retried' = [retried EXCEPT ![n[w]] = FALSE]
    /\ Return(w, NilErr)
    /\ UNCHANGED <<config, cache, cancelled, timer, data, wgDone, backend, to, cachedTo>>

\* Mutant of FinishUpdate: the status is updated with processed=false.
FinishUpdateKeepsPending(w, ok) ==
    /\ pc[w] = "finish"
    /\ ~ErrorsIs(err[w], "ErrRetryable")
    /\ updateOK' = [updateOK EXCEPT ![w] = ok]
    /\ store' = IF TxCommits(NilErr, ok) THEN UpdateStatus(n[w], FALSE, err[w]) ELSE store
    /\ delivered' = [delivered EXCEPT ![n[w]] = @ /\ ~TxCommits(NilErr, ok)]
    /\ retried' = [retried EXCEPT ![n[w]] = FALSE]
    /\ Return(w, NilErr)
    /\ UNCHANGED <<config, cache, cancelled, timer, data, wgDone, backend, to, cachedTo>>

\* Mutant of FinishUpdate: the error of UpdateStatus is returned to Run.
FinishUpdateReturnsError(w, ok) ==
    /\ pc[w] = "finish"
    /\ ~ErrorsIs(err[w], "ErrRetryable")
    /\ updateOK' = [updateOK EXCEPT ![w] = ok]
    /\ store' = IF TxCommits(NilErr, ok) THEN UpdateStatus(n[w], TRUE, err[w]) ELSE store
    /\ delivered' = [delivered EXCEPT ![n[w]] = @ /\ ~TxCommits(NilErr, ok)]
    /\ retried' = [retried EXCEPT ![n[w]] = FALSE]
    /\ Return(w, IF ok THEN NilErr ELSE ErrDB)
    /\ UNCHANGED <<config, cache, cancelled, timer, data, wgDone, backend, to, cachedTo>>

\* UpdateStatus(ctx, tx, n.NotificationID, true, err) answered ok (or failed);
\* processNotification returns nil either way.
FinishUpdate(w, ok) ==
    /\ pc[w] = "finish"
    /\ ~ErrorsIs(err[w], "ErrRetryable")
    /\ updateOK' = [updateOK EXCEPT ![w] = ok]
    /\ store' = IF TxCommits(NilErr, ok) THEN UpdateStatus(n[w], TRUE, err[w]) ELSE store
    /\ delivered' = [delivered EXCEPT ![n[w]] = @ /\ ~TxCommits(NilErr, ok)]
    /\ retried' = [retried EXCEPT ![n[w]] = FALSE]
    /\ Return(w, NilErr)
    /\ UNCHANGED <<config, cache, cancelled, timer, data, wgDone, backend, to, cachedTo>>

FinishUpdateOK(w) == FinishUpdate(w, TRUE)
FinishUpdateFails(w) == FinishUpdate(w, FALSE)

\* A cache entry reaches its expiration time (go-cache's default expiration).
Expire ==
    /\ \E k \in CacheKeys :
         /\ cache[k] # NoEntry
         /\ cache' = [cache EXCEPT ![k] = NoEntry]
         /\ cachedTo' = IF k[1] = "emailData"
                         THEN [cachedTo EXCEPT ![k[2]] = NoRecipient] ELSE cachedTo
    /\ UNCHANGED <<config, store, lockedBy, cancelled, pc, n, wh, err, ret, updateOK, timer,
                   delivered, data, retried, wgDone, backend, to>>

\* The package or repository is updated upstream: the collaborators answer
\* with the new record from now on.
BackendChanges ==
    /\ backend = "v1"
    /\ backend' = "v2"
    /\ UNCHANGED <<config, store, lockedBy, cache, cancelled, pc, n, wh, err, ret, updateOK,
                   timer, delivered, data, retried, wgDone, to, cachedTo>>

WorkerStep(w) ==
    \/ GetPendingRow(w)
    \/ GetPendingNoRows(w)
    \/ GetPendingFails(w)
    \/ Dispatch(w)
    \/ PrepareData(w)
    \/ FetchOK(w)
    \/ FetchFails(w)
    \/ RenderEmailOK(w)
    \/ RenderEmailFails(w)
    \/ RenderWebhookOK(w)
    \/ RenderWebhookParseFails(w)
    \/ RenderWebhookExecFails(w)
    \/ CallWebhookResponse(w)
    \/ CallWebhookFails(w)
    \/ CallWebhookPanics(w)
    \/ SendEmailOK(w)
    \/ SendEmailFails(w)
    \/ FinishRetryable(w)
    \/ FinishUpdateOK(w)
    \/ FinishUpdateFails(w)
    \/ CheckDone(w)
    \/ TimerFires(w)
    \/ PauseTimeout(w)
    \/ PauseCancelled(w)

\* One worker instance.
Next ==
    \/ \E w \in {1} : WorkerStep(w)
    \/ Cancel
    \/ Expire

Spec == Init /\ [][Next]_vars

\* The pending notifications all wrap the same event.
InitOneEvent ==
    /\ Init
    /\ \A i \in NotifIDs : notifs[i].event = 1

\* One worker instance whose goroutine keeps being scheduled and whose calls
\* to the store, the collaborators and the delivery channels all answer.
FairSpec == InitOneEvent /\ [][Next]_vars /\ WF_vars(WorkerStep(1))

\* One worker instance delivering notifications of one event, with the
\* collaborators' records changing under it.
NextCache ==
    \/ Next
    \/ BackendChanges

SpecCache == InitOneEvent /\ [][NextCache]_vars

\* One worker instance, with pending notifications of one event that may also
\* have no target, or both.
InitTargets ==
    /\ InitWith(AnyNotifications)
    /\ \A i \in NotifIDs : notifs[i].event = 1

SpecTargets == InitTargets /\ [][Next]_vars

\* NumWorkers worker instances against the same notifications table and cache,
\* with an email sender and new-release events, within one expiration window
\* of the cache.
InitWorkers ==
    /\ Init
    /\ esSet
    /\ \A e \in EventIDs : eventKind[e] = NewRelease

NextWorkers ==
    \/ \E w \in Workers : WorkerStep(w)
    \/ Cancel
    \/ BackendChanges

SpecWorkers == InitWorkers /\ [][NextWorkers]_vars

\* ------------------------------------------------------------------ properties
\* The worker is inside the transaction of processNotification, holding n.
InTx(w) ==
    pc[w] \in {"dispatch", "prepData", "fetch", "render", "sendEmail", "callWebhook", "finish"}

\* processNotification's callback returns in this step.
Finishes(w) == pc[w] = "finish" /\ pc'[w] # "finish"

Unprocessed == [processed |-> FALSE, error |-> ""]
Processed(e) == [processed |-> TRUE, error |-> e.msg]

\* C1 as stated: every notification is delivered by exactly one transaction, so
\* no delivery reaches the recipient of a notification that an earlier
\* transaction already delivered.
C1_NoDoubleDelivery ==
    [][\A w \in Workers :
         (pc[w] \in {"sendEmail", "callWebhook"} /\ pc'[w] = "finish" /\ err'[w].nil)
            => ~delivered[n[w]]]_vars

\* C1 as amended: with several workers on the same table, no two transactions
\* hold the same notification at once, a transaction only ever holds an
\* unprocessed notification under its own row lock, and a row changes only by
\* being marked processed by the transaction that holds it (so each
\* notification is finalized at most once).
C1_ExclusiveClaim ==
    /\ [](/\ \A w1, w2 \in Workers : (w1 # w2 /\ InTx(w1) /\ InTx(w2)) => n[w1] # n[w2]
          /\ \A w \in Workers :
               InTx(w) => /\ n[w] \in NotifIDs
                          /\ lockedBy[n[w]] = w
                          /\ ~store[n[w]].processed)
    /\ [][\A i \in NotifIDs :
            store'[i] # store[i] =>
               /\ ~store[i].processed
               /\ store'[i].processed
               /\ \E w \in Workers : Finishes(w) /\ n[w] = i /\ lockedBy[i] = w]_vars

\* C1 witness: two workers raced on the table and each holds a different
\* notification, both about to finalize.
C1_Witness ==
    \E w1, w2 \in Workers :
       /\ w1 # w2
       /\ pc[w1] = "finish" /\ pc[w2] = "finish"
       /\ n[w1] # n[w2]

\* C2 as stated: a retryable failure leaves the notification unprocessed with
\* no error text, and a terminal failure always ends with processed=true and
\* the failure's message.
C2_TerminalAlwaysMarked ==
    [][\A w \in Workers :
         (Finishes(w) /\ ~err[w].nil) =>
            IF ErrorsIs(err[w], "ErrRetryable")
            THEN store'[n[w]] = Unprocessed
            ELSE store'[n[w]] = Processed(err[w])]_vars

\* C2 as amended: a retryable failure leaves the notification unprocessed with
\* no error text and is what processNotification returns; a terminal failure
\* ends with processed=true and the failure's message when the status update
\* succeeds, and with the notification unprocessed when the update fails.
C2_FailureOutcome ==
    [][\A w \in Workers :
         (Finishes(w) /\ ~err[w].nil) =>
            IF ErrorsIs(err[w], "ErrRetryable")
            THEN store'[n[w]] = Unprocessed /\ ret'[w] = err[w]
            ELSE /\ ret'[w] = NilErr
                 /\ store'[n[w]] = IF updateOK'[w] THEN Processed(err[w]) ELSE Unprocessed]_vars

\* C2 witness: one notification was marked processed with an error text and the
\* worker has just been returned a retryable error for another one, which is
\* still unprocessed.
C2_Witness ==
    \E w \in Workers :
       /\ pc[w] = "pauseError"
       /\ ErrorsIs(ret[w], "ErrRetryable")
       /\ \E i, j \in NotifIDs :
            /\ store[i].processed /\ store[i].error # ""
            /\ store[j] = Unprocessed /\ j \in Claimable

\* C3 as stated: a webhook answered with HTTP 500 and a webhook whose connection
\* is refused fail with different error texts, both retryable, so neither text
\* is ever stored with processed=true.
C3_WebhookFailuresRetryable ==
    /\ StatusErr(500).msg # ConnRefused.msg
    /\ \A i \in NotifIDs :
         store[i].processed =>
            store[i].error \notin {WebhookResult(NilErr, 500).msg, WebhookResult(ConnRefused, 0).msg}

\* C4: when UpdateStatus fails, nothing is committed: the table is unchanged,
\* the notification is unprocessed and its row is claimable again.
C4_UpdateFailureNotCommitted ==
    [][\A w \in Workers :
         (Finishes(w) /\ ~ErrorsIs(err[w], "ErrRetryable") /\ ~updateOK'[w]) =>
            /\ ~TxCommits(ret'[w], updateOK'[w])
            /\ store' = store
            /\ store'[n[w]] = Unprocessed
            /\ n[w] \in Claimable']_vars

\* C4 witness: processNotification returned after a failed status update and
\* the notification it held is pending again.
C4_Witness ==
    \E w \in Workers :
       /\ pc[w] = "checkDone"
       /\ ~updateOK[w]
       /\ Claimable # {}

\* C5 as stated: with no email sender, a notification for a user is marked
\* processed=true with the sender-not-available text.
C5_NoSenderAlwaysMarked ==
    [][\A w \in Workers :
         (Finishes(w) /\ UsesEmail(n[w]) /\ ~esSet) =>
            store'[n[w]] = Processed(ErrSenderNotAvailable)]_vars

\* C5 as amended: with no email sender, the delivery of a notification for a
\* user fails with the sender-not-available error, which is not retryable;
\* processNotification then returns nil, and the notification is marked
\* processed=true with that text when the status update succeeds (and only
\* stays unprocessed when the update fails); a processed notification is not
\* claimed again.
C5_NoSenderTerminal ==
    /\ [](\A w \in Workers :
            /\ (pc[w] = "finish" /\ UsesEmail(n[w]) /\ ~esSet) =>
                  (err[w] = ErrSenderNotAvailable /\ ~ErrorsIs(err[w], "ErrRetryable"))
            /\ (InTx(w) /\ UsesEmail(n[w]) /\ ~esSet) => pc[w] \in {"dispatch", "finish"}
            /\ InTx(w) => ~store[n[w]].processed)
    /\ [][\A w \in Workers :
            (Finishes(w) /\ UsesEmail(n[w]) /\ ~esSet) =>
               /\ ret'[w] = NilErr
               /\ store'[n[w]] =
                     IF updateOK'[w] THEN Processed(ErrSenderNotAvailable) ELSE Unprocessed]_vars

\* C5 witness: with no sender, a notification for a user is stored processed
\* with the sender-not-available text.
C5_Witness ==
    /\ ~esSet
    /\ \E i \in NotifIDs : notifs[i].user /\ store[i] = Processed(ErrSenderNotAvailable)

\* C6 as stated: an error executing the email body template is terminal, so
\* processNotification never returns it to Run as a retryable error.
C6_EmailTemplateErrorTerminal ==
    \A w \in Workers :
       ~(ErrorsIs(ret[w], "ErrRetryable") /\ ret[w].msg = WrapEmailDataErr(ExecErr).msg)

\* C7 as stated: a webhook with a URL no request can be built from is a
\* terminal failure and the worker keeps running.
C7_MalformedWebhookNotFatal ==
    \A w \in Workers : ~wh[w].urlOK => pc[w] # "panicked"

\* C8 as stated: once the signal has fired, Run never goes on to another
\* iteration.
C8_NoIterationAfterCancel ==
    [][\A w \in Workers : cancelled => ~(pc[w] # "call" /\ pc'[w] = "call")]_vars

\* C8 as amended: once the signal has fired, Run goes on to another iteration
\* only from a pause whose timer had already woken the select before the
\* signal; no timer wakes a select after the signal, so that happens at most
\* once, and an iteration that finishes after the signal ends in a return.
C8_OnlyExpiredTimerAfterCancel ==
    [][\A w \in Workers :
         cancelled =>
            /\ (pc[w] # "call" /\ pc'[w] = "call") => (InPause(w) /\ timer[w])
            /\ timer'[w] => timer[w]
            /\ (pc[w] = "checkDone" /\ pc'[w] # "checkDone") => pc'[w] = "returned"]_vars

\* C8 witness: an iteration finished after the signal had fired and Run returned.
C8_Witness ==
    \E w \in Workers : cancelled /\ pc[w] = "returned" /\ ret[w].nil

\* C9: when the signal has fired while Run waits in a pause whose timer has not
\* expired, Run can return at once, no timer step is taken first, and a Run
\* that returned out of a pause did so with the timer unexpired.
C9_PauseInterruptible ==
    \A w \in Workers :
       /\ (InPause(w) /\ cancelled /\ ~timer[w]) =>
             /\ ENABLED PauseCancelled(w)
             /\ ~ENABLED TimerFires(w)
             /\ ~ENABLED PauseTimeout(w)
       /\ (pc[w] = "returned" /\ ~ret[w].nil) => ~timer[w]

\* C9 witness: Run returned out of the empty-queue pause.
C9_Witness ==
    \E w \in Workers : pc[w] = "returned" /\ ErrorsIs(ret[w], "ErrNoRows") /\ ~timer[w]

\* C10: Run has returned only if the signal has fired, whatever
\* processNotification returned.
C10_ReturnsOnlyWhenCancelled ==
    \A w \in Workers : pc[w] = "returned" => cancelled

\* C10 witness: Run went through a terminal failure and a retryable failure and
\* returned, out of the error pause, once the signal fired.
C10_Witness ==
    \E w \in Workers :
       /\ pc[w] = "returned"
       /\ ErrorsIs(ret[w], "ErrRetryable")
       /\ \E i \in NotifIDs : store[i].processed /\ store[i].error # ""

\* Run is over: it returned, or a panic unwound it.
Exited(w) == pc[w] \in {"returned", "panicked"}

\* C11: once the signal has fired, the Run of a worker that keeps being
\* scheduled and whose calls answer is eventually over (it returns; a call that
\* panics instead of answering unwinds it); wg.Done() has been called once
\* when Run is over and not at all before, and it is called in the very step
\* that ends Run.
C11_ReturnsAndSignalsOnce ==
    /\ [](\A w \in Workers : wgDone[w] = IF Exited(w) THEN 1 ELSE 0)
    /\ [][\A w \in Workers :
            /\ wgDone'[w] # wgDone[w] => (~Exited(w) /\ Exited(w)')
            /\ Exited(w) => pc'[w] = pc[w]]_vars
    /\ (cancelled ~> Exited(1))

\* C11 witness: the signal fired while a delivery was in flight; the delivery
\* was completed and recorded, and Run then returned and called wg.Done() once.
C11_Witness ==
    /\ cancelled
    /\ pc[1] = "returned"
    /\ wgDone[1] = 1
    /\ ret[1].nil
    /\ \E i \in NotifIDs : store[i].processed /\ store[i].error = ""

\* C12: a notification whose last attempt failed retryably is unprocessed with
\* no error text, however many attempts came before; a retryable failure can
\* only be returned, never recorded; Run then waits in the error pause, whose
\* timer can fire while the signal has not; and at the next call of the (one)
\* worker the notification is claimable, GetPending returns a row, and the
\* notification the worker then holds is that same one.
C12_RetryableNeverProcessed ==
    /\ \A i \in NotifIDs : retried[i] => store[i] = Unprocessed
    /\ \A w \in Workers :
          /\ (pc[w] = "finish" /\ ErrorsIs(err[w], "ErrRetryable")) =>
                /\ ENABLED FinishRetryable(w)
                /\ ~ENABLED FinishUpdateOK(w)
                /\ ~ENABLED FinishUpdateFails(w)
          /\ (~Exited(w) /\ ErrorsIs(ret[w], "ErrRetryable")) =>
                /\ pc[w] = "pauseError"
                /\ (~cancelled /\ ~timer[w]) => ENABLED TimerFires(w)
                /\ timer[w] => ENABLED PauseTimeout(w)
    /\ \A i \in NotifIDs :
          retried[i] =>
             /\ pc[1] = "call" => (i \in Claimable /\ ENABLED GetPendingRow(1))
             /\ InTx(1) => n[1] = i

\* C12 witness: the notification the worker holds failed retryably on the
\* attempt before, and has now failed retryably again.
C12_Witness ==
    \E w \in Workers :
       /\ pc[w] = "finish"
       /\ ErrorsIs(err[w], "ErrRetryable")
       /\ retried[n[w]]

\* The cache key of the collaborator's answer the delivery of worker w needs.
DataKey(w) == CKey(DataKind(n[w]), notifs[n[w]].event)
EmailKey(w) == CKey("emailData", notifs[n[w]].event)

\* C13: one worker, notifications of one event, a collaborator whose answer
\* changes.  A delivery that finds the event's entry in the cache builds on
\* the cached answer, the one the earlier delivery fetched, and does not ask
\* the collaborator, whatever the collaborator would answer now; a delivery
\* that finds no entry (never fetched, or expired) asks the collaborator and
\* caches its current answer.  The collaborator is never asked while the entry
\* is in the cache, and the data a delivery builds on is the cached one as
\* long as the entry has not expired.
C13_CacheIdempotence ==
    /\ [](/\ pc[1] = "fetch" => (cache[DataKey(1)] = NoEntry /\ data[1] = NoData)
          /\ (pc[1] \in {"render", "callWebhook"} /\ cache[DataKey(1)] # NoEntry) =>
                data[1] = cache[DataKey(1)]
          /\ (pc[1] = "sendEmail" /\ cache[EmailKey(1)] # NoEntry) =>
                data[1] = cache[EmailKey(1)])
    /\ [][/\ (pc[1] = "prepData" /\ pc'[1] # "prepData") =>
               /\ cache' = cache
               /\ IF cache[DataKey(1)] # NoEntry
                  THEN pc'[1] = "render" /\ data'[1] = cache[DataKey(1)]
                  ELSE pc'[1] = "fetch"
          /\ (pc[1] = "dispatch" /\ pc'[1] \in {"prepData", "sendEmail"} /\ UsesEmail(n[1])) =>
               /\ cache' = cache
               /\ IF cache[EmailKey(1)] # NoEntry
                  THEN pc'[1] = "sendEmail" /\ data'[1] = cache[EmailKey(1)]
                  ELSE pc'[1] = "prepData"
          /\ (pc[1] = "fetch" /\ pc'[1] = "render") =>
               (data'[1] = backend /\ cache'[DataKey(1)] = backend)
          /\ \A k \in CacheKeys :
               (cache'[k] # cache[k] /\ cache'[k] # NoEntry) =>
                  /\ cache[k] = NoEntry
                  /\ pc[1] \in {"fetch", "render"}]_vars

\* C13 witness: the first notification of the event was delivered and recorded
\* and its fetch is still cached; the collaborator's answer has changed since;
\* the worker holds the second notification and is at the cache lookup.
C13_Witness ==
    /\ n[1] # NoNotif
    /\ \E i \in NotifIDs :
          /\ i # n[1]
          /\ notifs[i].event = notifs[n[1]].event
          /\ store[i] = Processed(NilErr)
    /\ pc[1] = "prepData"
    /\ cache[CKey(DataKind(n[1]), notifs[n[1]].event)] = "v1"
    /\ backend = "v2"
    /\ ENABLED PrepareData(1)

\* C14 as stated: several workers share the cache within one expiration
\* window.  The collaborator is asked at most once for an event: no worker is
\* about to ask it for a key whose entry is in the cache, no two workers are
\* about to ask it for the same key, and so any two deliveries in flight for
\* the same key build on the same answer.
C14_QueriedOncePerWindow ==
    /\ \A w \in Workers : pc[w] = "fetch" => cache[DataKey(w)] = NoEntry
    /\ \A w1, w2 \in Workers :
          (w1 # w2 /\ InTx(w1) /\ InTx(w2) /\ DataKey(w1) = DataKey(w2)) =>
             /\ ~(pc[w1] = "fetch" /\ pc[w2] = "fetch")
             /\ (data[w1] # NoData /\ data[w2] # NoData) => data[w1] = data[w2]

\* C15 as stated: with several workers sharing the cache, within one
\* expiration window, the value under a key that is in the cache is never
\* changed by any delivery.
C15_EntriesImmutable ==
    [][\A k \in CacheKeys : cache[k] # NoEntry => cache'[k] = cache[k]]_vars

\* C16 as stated: when the delivery of the claimed notification succeeded,
\* processNotification ends with the notification stored as processed=true
\* with an empty error text.
C16_SuccessAlwaysMarked ==
    [][\A w \in Workers :
         (Finishes(w) /\ err[w].nil /\ delivered[n[w]]) =>
            store'[n[w]] = Processed(NilErr)]_vars

\* C16 as amended: when the delivery of the claimed notification succeeded,
\* processNotification returns nil and releases the row; when the status update
\* succeeded the transaction commits with the notification stored as
\* processed=true with an empty error text, and when the status update failed
\* nothing is committed and the notification stays unprocessed.
C16_SuccessMarkedWhenUpdated ==
    [][\A w \in Workers :
         (Finishes(w) /\ err[w].nil /\ delivered[n[w]]) =>
            /\ ret'[w] = NilErr
            /\ lockedBy'[n[w]] = NoWorker
            /\ TxCommits(ret'[w], updateOK'[w]) = updateOK'[w]
            /\ store'[n[w]] = IF updateOK'[w] THEN Processed(NilErr) ELSE Unprocessed
            /\ \A i \in NotifIDs \ {n[w]} : store'[i] = store[i]]_vars

\* C16 witness: a delivery succeeded, the status update succeeded, and the
\* notification is stored as processed with an empty error text.
C16_Witness ==
    \E w \in Workers :
       /\ pc[w] = "checkDone"
       /\ updateOK[w]
       /\ \E i \in NotifIDs : store[i] = Processed(NilErr) /\ ~delivered[i]
       /\ \A i \in NotifIDs : store[i].processed => store[i].error = ""

\* C17: a call made when no notification is claimable can be answered with
\* pgx.ErrNoRows and cannot claim a row; it never enters a delivery, returns
\* pgx.ErrNoRows (or the store's own error when the store fails) and leaves
\* the table, the row locks, the cache and the delivery history as they were;
\* and pgx.ErrNoRows is returned only then, and sends Run to the empty-queue
\* pause.
C17_NoPendingChangesNothing ==
    /\ [](\A w \in Workers :
            (pc[w] = "call" /\ Claimable = {}) =>
               (ENABLED GetPendingNoRows(w) /\ ~ENABLED GetPendingRow(w)))
    /\ [][\A w \in Workers :
            (pc[w] = "call" /\ pc'[w] # "call") =>
               /\ Claimable = {} =>
                     /\ ~InTx(w)'
                     /\ ret'[w] \in {ErrNoRows, ErrDB}
                     /\ UNCHANGED <<store, lockedBy, cache, delivered, retried, data>>
               /\ ErrorsIs(ret'[w], "ErrNoRows") =>
                     (Claimable = {} /\ pc'[w] = "pauseEmpty")]_vars

\* C17 witness: every notification is processed, the cache holds an entry, and
\* the call returned pgx.ErrNoRows.
C17_Witness ==
    \E w \in Workers :
       /\ pc[w] = "pauseEmpty"
       /\ ErrorsIs(ret[w], "ErrNoRows")
       /\ \A i \in NotifIDs : store[i].processed
       /\ \E k \in CacheKeys : cache[k] # NoEntry

\* C18 as stated: a webhook notification whose template does not parse always
\* ends with processed=true and the parse error's text.
C18_ParseFailureAlwaysMarked ==
    [][\A w \in Workers :
         (Finishes(w) /\ err[w] = ParseErr) => store'[n[w]] = Processed(ParseErr)]_vars

\* C18 as amended: for a webhook whose template does not parse, no request is
\* ever built or sent; once the template data is there the delivery ends with
\* the parse error, which is not retryable; processNotification then returns
\* nil, and the notification is stored as processed=true with the parse
\* error's text when the status update succeeds (and stays unprocessed, to be
\* claimed again, only when that update fails); a processed notification is
\* not held by any worker again.
C18_ParseFailureTerminal ==
    /\ [](\A w \in Workers :
            /\ (InTx(w) /\ ~UsesEmail(n[w]) /\ wh[w].template = "unparsable") =>
                  /\ pc[w] # "callWebhook"
                  /\ pc[w] = "finish" => err[w] \in {ParseErr, WrapTmplDataErr(FetchErr)}
            /\ ~ErrorsIs(ParseErr, "ErrRetryable")
            /\ InTx(w) => ~store[n[w]].processed)
    /\ [][\A w \in Workers :
            /\ (pc[w] = "render" /\ pc'[w] # "render" /\ ~UsesEmail(n[w])
                   /\ wh[w].template = "unparsable") =>
                  (pc'[w] = "finish" /\ err'[w] = ParseErr)
            /\ (Finishes(w) /\ err[w] = ParseErr) =>
                  /\ ret'[w] = NilErr
                  /\ store'[n[w]] = IF updateOK'[w] THEN Processed(ParseErr) ELSE Unprocessed]_vars

\* C18 witness: a webhook notification is stored as processed with the parse
\* error's text, and was never delivered.
C18_Witness ==
    \E i \in NotifIDs :
       /\ notifs[i].webhook
       /\ store[i] = Processed(ParseErr)
       /\ ~delivered[i]

\* C19: a worker is at the email sender only with a notification that has a
\* User target, and at the webhook call only with one that has a Webhook
\* target; a notification with only a User target never gets to the webhook
\* call and one with only a Webhook target never to the email sender.  Within
\* one call, the step after a channel was invoked is the end of the delivery,
\* so at most one channel is invoked; and a notification reaches a recipient
\* only in a step of the worker that holds it at one of the two channels.
C19_DispatchByTarget ==
    /\ [](\A w \in Workers :
            InTx(w) =>
               /\ pc[w] = "sendEmail" => notifs[n[w]].user
               /\ pc[w] = "callWebhook" => notifs[n[w]].webhook
               /\ (notifs[n[w]].user /\ ~notifs[n[w]].webhook) => pc[w] # "callWebhook"
               /\ (notifs[n[w]].webhook /\ ~notifs[n[w]].user) => pc[w] # "sendEmail")
    /\ [][/\ \A w \in Workers :
               /\ pc[w] = "sendEmail" => pc'[w] \in {"sendEmail", "finish"}
               /\ pc[w] = "callWebhook" => pc'[w] \in {"callWebhook", "finish", "panicked"}
               /\ pc[w] = "finish" => (pc'[w] = "finish" \/ ~InTx(w)')
          /\ \A i \in NotifIDs :
               (delivered'[i] /\ ~delivered[i]) =>
                  \E w \in Workers :
                     /\ n[w] = i
                     /\ pc'[w] = "finish"
                     /\ \/ pc[w] = "sendEmail" /\ notifs[i].user
                        \/ pc[w] = "callWebhook" /\ notifs[i].webhook]_vars

\* C19 witness: a notification with a User target was delivered and recorded,
\* and the worker is now at the webhook call with a notification that has a
\* Webhook target.
C19_Witness ==
    \E w \in Workers :
       /\ pc[w] = "callWebhook"
       /\ notifs[n[w]].webhook /\ ~notifs[n[w]].user
       /\ \E i \in NotifIDs :
            notifs[i].user /\ ~notifs[i].webhook /\ store[i] = Processed(NilErr)

\* C20: with several workers on the table, every notification keeps its row
\* (no step removes one); a row that is stored as processed never changes
\* again, so processed never goes back to false; no worker is ever inside a
\* delivery for a notification that is stored as processed, and no
\* notification reaches its recipient while it is stored as processed.
C20_ProcessedIsFinal ==
    /\ [](/\ DOMAIN store = NotifIDs
          /\ \A w \in Workers : InTx(w) => ~store[n[w]].processed)
    /\ [][\A i \in NotifIDs :
            /\ store[i].processed => store'[i] = store[i]
            /\ (delivered'[i] /\ ~delivered[i]) => (~store[i].processed /\ ~store'[i].processed)]_vars

\* C20 witness: one notification is stored as processed while a worker is
\* delivering another one and a second worker is looking for work.
C20_Witness ==
    \E w1, w2 \in Workers :
       /\ w1 # w2
       /\ pc[w1] \in {"sendEmail", "callWebhook"}
       /\ pc[w2] = "pauseEmpty"
       /\ \E i \in NotifIDs : store[i].processed /\ i # n[w1]

\* processNotification returns to Run in this step.
Returns(w) == (pc[w] = "call" \/ InTx(w)) /\ pc'[w] \notin {"call", "panicked"} /\ ~InTx(w)'

\* C21: when processNotification returns, Run waits in the empty-queue pause
\* exactly when the error is pgx.ErrNoRows, in the error pause exactly when it
\* is any other error (a retryable one included), and in no pause when it is
\* nil; Run starts its next call either straight from the check that follows
\* a nil return, or out of a pause whose timer fired, which follows an error.
C21_PauseIffError ==
    /\ [](\A w \in Workers :
            /\ pc[w] = "pauseEmpty" => ErrorsIs(ret[w], "ErrNoRows")
            /\ pc[w] = "pauseError" => (~ret[w].nil /\ ~ErrorsIs(ret[w], "ErrNoRows"))
            /\ pc[w] = "checkDone" => ret[w].nil)
    /\ [][\A w \in Workers :
            /\ Returns(w) =>
                  /\ (pc'[w] = "pauseEmpty") = ErrorsIs(ret'[w], "ErrNoRows")
                  /\ (pc'[w] = "pauseError") = (~ret'[w].nil /\ ~ErrorsIs(ret'[w], "ErrNoRows"))
                  /\ (pc'[w] = "checkDone") = ret'[w].nil
                  /\ ErrorsIs(ret'[w], "ErrRetryable") => pc'[w] = "pauseError"
            /\ (pc[w] # "call" /\ pc'[w] = "call") =>
                  \/ pc[w] = "checkDone" /\ ret[w].nil
                  \/ InPause(w) /\ timer[w] /\ ~ret[w].nil]_vars

\* C21 witness: a delivery failed retryably and Run waits in the error pause,
\* its timer fired, after an earlier notification was processed with no pause.
C21_Witness ==
    \E w \in Workers :
       /\ pc[w] = "pauseError"
       /\ timer[w]
       /\ ErrorsIs(ret[w], "ErrRetryable")
       /\ \E i \in NotifIDs : store[i] = Processed(NilErr)

\* C22: one worker.  When UpdateStatus failed, processNotification returns nil
\* all the same and Run is at the check of the signal, not in a pause; the
\* notification is unprocessed, claimable and the oldest claimable one, and
\* what reached its recipient stays delivered.  From that check, with the
\* signal not fired, the only step of Run is the next call, no timer involved,
\* and a call made with a claimable notification can claim it.
C22_UpdateFailureNoBackoff ==
    /\ [](/\ pc[1] = "checkDone" =>
                (~timer[1] /\ ENABLED CheckDone(1) /\ ~ENABLED TimerFires(1))
          /\ (pc[1] = "call" /\ Claimable # {}) => ENABLED GetPendingRow(1))
    /\ [][/\ (Finishes(1) /\ ~ErrorsIs(err[1], "ErrRetryable") /\ ~updateOK'[1]) =>
               /\ ret'[1] = NilErr
               /\ pc'[1] = "checkDone"
               /\ store'[n[1]] = Unprocessed
               /\ n[1] \in Claimable'
               /\ Oldest' = n[1]
               /\ delivered'[n[1]] = delivered[n[1]]
          /\ (pc[1] = "checkDone" /\ pc'[1] # "checkDone" /\ ~cancelled) =>
               (pc'[1] = "call" /\ UNCHANGED <<store, lockedBy, timer>>)
          /\ (pc[1] = "call" /\ InTx(1)') => n'[1] = Oldest]_vars

\* C22 witness: the notification the worker is about to deliver already reached
\* its recipient, in the attempt before, whose status update failed.
C22_Witness ==
    /\ pc[1] \in {"sendEmail", "callWebhook"}
    /\ delivered[n[1]]
    /\ ~retried[n[1]]
    /\ store[n[1]] = Unprocessed

\* C23 as stated: a claimed notification with neither target always ends
\* stored as processed=true with an empty error text.
C23_NoTargetAlwaysMarked ==
    [][\A w \in Workers :
         (Finishes(w) /\ notifs[n[w]] = NoTarget(notifs[n[w]].event)) =>
            store'[n[w]] = Processed(NilErr)]_vars

\* C23 as amended: for a claimed notification with neither target no delivery
\* function runs and nothing reaches a recipient: the dispatch is followed at
\* once by the status update, with a nil error; processNotification returns
\* nil, and the notification is stored as processed=true with an empty error
\* text when the status update succeeds (and stays unprocessed only when that
\* update fails).  A notification with both targets never gets to the webhook
\* call, and reaches a recipient only through the email sender.
C23_NeitherOrBothTargets ==
    /\ [](/\ \A i \in NotifIDs : notifs[i] = NoTarget(notifs[i].event) => ~delivered[i]
          /\ \A w \in Workers :
               InTx(w) =>
                  /\ notifs[n[w]] = NoTarget(notifs[n[w]].event) =>
                        /\ pc[w] \in {"dispatch", "finish"}
                        /\ pc[w] = "finish" => err[w] = NilErr
                  /\ notifs[n[w]] = BothTargets(notifs[n[w]].event) =>
                        /\ pc[w] # "callWebhook"
                        /\ (pc[w] \in {"prepData", "fetch", "render", "sendEmail"}) => esSet)
    /\ [][\A w \in Workers :
            /\ (Finishes(w) /\ notifs[n[w]] = NoTarget(notifs[n[w]].event)) =>
                  /\ ret'[w] = NilErr
                  /\ store'[n[w]] = IF updateOK'[w] THEN Processed(NilErr) ELSE Unprocessed
            /\ (InTx(w) /\ notifs[n[w]] = BothTargets(notifs[n[w]].event)
                   /\ delivered'[n[w]] /\ ~delivered[n[w]]) =>
                  (pc[w] = "sendEmail" /\ pc'[w] = "finish")]_vars

\* C23 witness: a notification with neither target is stored as processed with
\* an empty error text, and the worker is at the email sender with one that
\* has both targets.
C23_Witness ==
    \E w \in Workers :
       /\ pc[w] = "sendEmail"
       /\ notifs[n[w]] = BothTargets(notifs[n[w]].event)
       /\ \E i \in NotifIDs :
            notifs[i] = NoTarget(notifs[i].event) /\ store[i] = Processed(NilErr)

\* C24: with the one worker, a notification is attempted only while every older
\* one is processed: while an older notification is unprocessed (as it is for
\* as long as it keeps failing retryably) a younger one is untouched: never
\* claimed, never delivered, never failed; the notification the worker holds
\* is the oldest unprocessed one; after a retryable failure the next call
\* claims that same notification; and no step delivers a notification while an
\* older one is unprocessed.
C24_HeadOfLineBlocking ==
    /\ [](/\ \A i, j \in NotifIDs :
               (i < j /\ ~store[i].processed) =>
                  /\ store[j] = Unprocessed
                  /\ ~delivered[j]
                  /\ ~retried[j]
                  /\ n[1] # j
          /\ \A i \in NotifIDs :
               retried[i] =>
                  /\ pc[1] = "call" => (Claimable # {} /\ Oldest = i)
                  /\ InTx(1) => n[1] = i)
    /\ [][\A i, j \in NotifIDs :
            (i < j /\ ~store[i].processed) => delivered'[j] = delivered[j]]_vars

\* C24 witness: the oldest notification failed retryably, was claimed again and
\* has failed retryably again, while a younger one that an available email
\* sender could deliver is still pending.
C24_Witness ==
    /\ pc[1] = "finish"
    /\ ErrorsIs(err[1], "ErrRetryable")
    /\ retried[n[1]]
    /\ \E j \in NotifIDs :
         /\ n[1] < j
         /\ notifs[j].user
         /\ esSet
         /\ store[j] = Unprocessed

\* C25: whenever a worker is at the call of the email sender, the email data
\* it hands over has the user email of the notification that worker holds as
\* its recipient, so no two emails in flight have the same recipient; the
\* email data kept in the cache never has a recipient; and a notification
\* reaches a user only by an email whose recipient is that notification's
\* user email.
C25_RecipientIsOwnUser ==
    /\ [](/\ \A w \in Workers :
               pc[w] = "sendEmail" =>
                  /\ notifs[n[w]].user
                  /\ to[w] = Email(n[w])
          /\ \A w, v \in Workers :
               (w # v /\ pc[w] = "sendEmail" /\ pc[v] = "sendEmail") => to[w] # to[v]
          /\ \A e \in EventIDs : cachedTo[e] = NoRecipient)
    /\ [][\A i \in NotifIDs :
            (notifs[i].user /\ delivered'[i] /\ ~delivered[i]) =>
               \E w \in Workers : pc[w] = "sendEmail" /\ n[w] = i /\ to[w] = Email(i)]_vars

\* C25 witness: an email for the first notification of an event was sent and
\* its email data cached, and a worker is at the email sender with the second
\* notification of that event, whose user is the recipient.
C25_Witness ==
    \E w \in Workers :
       /\ pc[w] = "sendEmail"
       /\ n[w] = 2
       /\ to[w] = Email(2)
       /\ notifs[1].user
       /\ notifs[1].event = notifs[2].event
       /\ delivered[1] \/ store[1].processed
       /\ cache[EmailKey(w)] # NoEntry

\* The collaborator's query of worker w failed.
FetchFailed(w) == pc[w] = "fetch" /\ pc'[w] = "finish"

\* C26 as stated: a failed query of the collaborator changes no cache entry
\* and reaches no recipient, the delivery fails as retryable, and the next
\* attempt (here of a webhook notification, whose only retryable failure is
\* this one) finds no entry for the event, so that it queries again.
C26_NextAttemptQueriesAgain ==
    /\ [][\A w \in Workers :
            FetchFailed(w) =>
               /\ cache' = cache
               /\ delivered' = delivered
               /\ ErrorsIs(err'[w], "ErrRetryable")]_vars
    /\ [](\A w \in Workers :
            (pc[w] = "prepData" /\ notifs[n[w]].webhook /\ retried[n[w]]) =>
               cache[DataKey(w)] = NoEntry)

\* C26 as amended: a failed query of the collaborator changes no cache entry,
\* stores nothing and reaches no recipient (the step leads straight to the
\* retryable check, past the email sender and the HTTP call), and the delivery
\* error wraps ErrRetryable, so the error is returned and nothing recorded; an
\* entry only ever appears by a query that answered or an email body that
\* rendered; and an attempt queries the collaborator exactly when the cache
\* has no entry for the event at its lookup.
C26_FetchErrorNotCached ==
    /\ [][\A w \in Workers :
            FetchFailed(w) =>
               /\ cache' = cache
               /\ cachedTo' = cachedTo
               /\ store' = store
               /\ delivered' = delivered
               /\ err'[w] = PrepErr(n[w], FetchErr)
               /\ ErrorsIs(err'[w], "ErrRetryable")]_vars
    /\ [](\A w \in Workers :
            (pc[w] = "finish" /\ err[w] = PrepErr(n[w], FetchErr)) =>
               /\ ENABLED FinishRetryable(w)
               /\ ~ENABLED FinishUpdateOK(w)
               /\ ~ENABLED FinishUpdateFails(w))
    /\ [][\A k \in CacheKeys :
            (cache'[k] # cache[k] /\ cache'[k] # NoEntry) =>
               \E w \in Workers :
                  \/ pc[w] = "fetch" /\ pc'[w] = "render" /\ k = DataKey(w)
                  \/ pc[w] = "render" /\ pc'[w] = "sendEmail" /\ k = EmailKey(w)]_vars
    /\ [][\A w \in Workers :
            (pc[w] = "prepData" /\ pc'[w] # "prepData") =>
               pc'[w] = IF cache[DataKey(w)] = NoEntry THEN "fetch" ELSE "render"]_vars

\* C26 witness: the query for a webhook notification failed on the attempt
\* before, nothing was cached, and the worker is querying the collaborator
\* again.
C26_Witness ==
    \E w \in Workers :
       /\ pc[w] = "fetch"
       /\ notifs[n[w]].webhook
       /\ retried[n[w]]
       /\ cache[DataKey(w)] = NoEntry

====
